---- MODULE Spec2Model ----
(***************************************************************************)
(* Model of src/util.rs: BytesToFixedNumber (a cursor over a byte vector)  *)
(* and FixedNumberToBytes (an appending byte vector), together with the    *)
(* conversions of web3::types H160, H256 and U256 that they call.          *)
(*                                                                         *)
(* A U256 is held as its 32 base-256 digits, least significant first       *)
(* (digit i has weight 256^i), which is the order of its limbs in memory.  *)
(* U256::byte(i) selects digit i; From<[u8; 32]> reads a big-endian array. *)
(* H160 and H256 are plain byte arrays.                                    *)
(*                                                                         *)
(* usize is UsizeBits wide.  Rust's `+` on usize panics on overflow when   *)
(* overflow checks are compiled in (debug profile) and wraps when they are *)
(* not (release profile); overflow_checks records which build runs.        *)
(***************************************************************************)
EXTENDS Integers, Sequences, FiniteSets, TLC

\* ---------------------------------------------------------------- bounds
\* width of usize in the model (a Vec never holds more than isize::MAX bytes)
UsizeBits == 7
\* length of the longest input buffer handed to a decoder
MaxInputLen == 40
\* number of push_* calls made on one encoder
MaxPushes == 2

UsizeModulus == 2 ^ UsizeBits
UsizeMax == UsizeModulus - 1
IsizeMax == (2 ^ (UsizeBits - 1)) - 1

\* ------------------------------------------------------------- constants
\* (256 - 160) / 8: the bytes of padding in front of a word-aligned H160
H160_PAD == (256 - 160) \div 8
\* the width of an H160 in bytes
H160_LEN == 20
\* the width of an H256 in bytes
H256_LEN == 32
\* 256 / 8: the width of a U256 in bytes
U256_LEN == 256 \div 8

VARIABLES
    obj,              \* which struct the caller holds: "Decoder" or "Encoder"
    data,             \* BytesToFixedNumber.data
    index,            \* BytesToFixedNumber.index
    enc,              \* FixedNumberToBytes.data
    overflow_checks,  \* TRUE: arithmetic overflow panics; FALSE: it wraps
    last,             \* the last call: its name, arguments, result and the state before it
    pushed            \* the values pushed on the encoder so far, in order

vars == <<obj, data, index, enc, overflow_checks, last, pushed>>

\* ------------------------------------------------------ value conversions
Zeros(n) == [i \in 1..n |-> 0]

Ramp(n) == [i \in 1..n |-> i]

\* U256::from(n) for a small n: digit i of n in base 256
U256FromNat(n) == [i \in 1..U256_LEN |-> IF i <= 3 THEN (n \div (256 ^ (i - 1))) % 256 ELSE 0]

\* U256::byte(i): the byte of weight 256^i
U256Byte(value, i) == value[i + 1]

\* <U256 as From<[u8; 32]>>::from: the array is big-endian
\* (variant: the array read least significant byte first)
U256FromBigEndian_Le(arr) == arr

U256FromBigEndian(arr) == [i \in 1..U256_LEN |-> arr[U256_LEN + 1 - i]]

\* <H160 as From<[u8; 20]>>::from and <H256 as From<[u8; 32]>>::from wrap the array
HashFromArray(arr) == arr

\* the copy loops `for i in 0..n { the_vec[i] = vec_resp[i]; }`
CopyToArray(vec_resp, n) == [i \in 1..n |-> vec_resp[i]]

\* ------------------------------------------------------------- decoder
Res(status, val, idx) == [status |-> status, val |-> val, index |-> idx]

\* `self.index + size > self.data.len()`: the sum panics or wraps when it
\* exceeds usize::MAX
skip_res(d, idx, size, oc) ==
    LET sum == idx + size
        wrapped == sum % UsizeModulus
    IN  IF sum > UsizeMax /\ oc THEN Res("Panic", <<>>, idx)
        ELSE IF wrapped > Len(d) THEN Res("Err", <<>>, idx)
        ELSE Res("Ok", <<>>, wrapped)

\* after a wrapped sum has passed the check, the loop indexes data[index + i]
\* past the end of the vector, which panics before index is assigned
next_vec_res(d, idx, size, oc) ==
    LET sum == idx + size
        wrapped == sum % UsizeModulus
    IN  IF sum > UsizeMax /\ oc THEN Res("Panic", <<>>, idx)
        ELSE IF wrapped > Len(d) THEN Res("Err", <<>>, idx)
        ELSE IF sum > Len(d) THEN Res("Panic", <<>>, idx)
        ELSE Res("Ok", SubSeq(d, idx + 1, idx + size), wrapped)

next_h160_not_padded_res(d, idx, oc) ==
    LET r == next_vec_res(d, idx, H160_LEN, oc)
    IN  IF r.status /= "Ok" THEN r
        ELSE Res("Ok", HashFromArray(CopyToArray(r.val, H160_LEN)), r.index)

\* (variant: the padding is not skipped)
next_h160_res_NoSkip(d, idx, oc) ==
    next_h160_not_padded_res(d, idx, oc)

next_h160_res(d, idx, oc) ==
    LET s == skip_res(d, idx, H160_PAD, oc)
    IN  IF s.status /= "Ok" THEN s
        ELSE next_h160_not_padded_res(d, s.index, oc)

next_h256_res(d, idx, oc) ==
    LET r == next_vec_res(d, idx, H256_LEN, oc)
    IN  IF r.status /= "Ok" THEN r
        ELSE Res("Ok", HashFromArray(CopyToArray(r.val, H256_LEN)), r.index)

next_u256_res(d, idx, oc) ==
    LET r == next_vec_res(d, idx, U256_LEN, oc)
    IN  IF r.status /= "Ok" THEN r
        ELSE Res("Ok", U256FromBigEndian(CopyToArray(r.val, U256_LEN)), r.index)

\* ------------------------------------------------------------- encoder
\* (variant: the vector replaces the buffer)
push_vec_buf_Overwrite(buf, vec) == vec

push_vec_buf(buf, vec) == buf \o vec

push_h160_not_padded_buf(buf, value) == buf \o value

\* (variant: the padding follows the address)
push_h160_buf_PadAfter(buf, value) ==
    push_h160_not_padded_buf(buf, value) \o Zeros(H160_PAD)

push_h160_buf(buf, value) ==
    push_h160_not_padded_buf(buf \o Zeros(H160_PAD), value)

push_h256_buf(buf, value) == buf \o value

push_u256_buf(buf, value) ==
    buf \o [i \in 1..U256_LEN |-> U256Byte(value, i - 1)]

\* ------------------------------------------------------------- inputs
Sizes == {0, 1, 5, UsizeMax - 1, UsizeMax}

ScenarioA == Zeros(12) \o [i \in 1..20 |-> 16 + i]

ScenarioB == Zeros(31) \o <<1>>

InputLens == {0, 10, 12, 20, 31, 32, 33, MaxInputLen}

InputBuffers == {Ramp(n) : n \in InputLens} \cup {ScenarioA, ScenarioB}

Seeds == {<<>>, <<170, 187>>}

VecValues == {<<>>, <<7>>, <<1, 2, 3>>}

H160Values == {[i \in 1..H160_LEN |-> 16 + i], Zeros(H160_LEN)}

H256Values == {[i \in 1..H256_LEN |-> 200 - i], Zeros(H256_LEN)}

U256Values == {U256FromNat(0), U256FromNat(1), U256FromNat(256),
               [i \in 1..U256_LEN |-> 64 + i], [i \in 1..U256_LEN |-> 255]}

\* ------------------------------------------------------------- state
NoCall == [op |-> "new", size |-> 0, arg |-> <<>>, pre |-> 0, prebuf |-> <<>>,
           status |-> "Ok", val |-> <<>>]

\* From<Vec<u8>> / From<Bytes> for BytesToFixedNumber
DecoderFrom(bytes) ==
    /\ obj' = "Decoder"
    /\ data' = bytes
    /\ index' = 0

Init ==
    /\ overflow_checks \in BOOLEAN
    /\ last = NoCall
    /\ pushed = <<>>
    /\ \/ \E b \in InputBuffers :
            /\ obj = "Decoder" /\ data = b /\ index = 0 /\ enc = <<>>
       \/ \E b \in Seeds :
            /\ obj = "Encoder" /\ enc = b /\ data = <<>> /\ index = 0

\* a panic aborts the caller: nothing is called afterwards
Alive == last.status /= "Panic"

DecCall(op, size, r) ==
    /\ index' = r.index
    /\ last' = [op |-> op, size |-> size, arg |-> <<>>, pre |-> index, prebuf |-> <<>>,
                status |-> r.status, val |-> r.val]
    /\ UNCHANGED <<obj, data, enc, overflow_checks, pushed>>

next_vec ==
    /\ obj = "Decoder" /\ Alive
    /\ \E size \in Sizes : DecCall("next_vec", size, next_vec_res(data, index, size, overflow_checks))

skip ==
    /\ obj = "Decoder" /\ Alive
    /\ \E size \in Sizes : DecCall("skip", size, skip_res(data, index, size, overflow_checks))

next_h160 ==
    /\ obj = "Decoder" /\ Alive
    /\ DecCall("next_h160", 0, next_h160_res(data, index, overflow_checks))

next_h160_not_padded ==
    /\ obj = "Decoder" /\ Alive
    /\ DecCall("next_h160_not_padded", 0, next_h160_not_padded_res(data, index, overflow_checks))

next_h256 ==
    /\ obj = "Decoder" /\ Alive
    /\ DecCall("next_h256", 0, next_h256_res(data, index, overflow_checks))

next_u256 ==
    /\ obj = "Decoder" /\ Alive
    /\ DecCall("next_u256", 0, next_u256_res(data, index, overflow_checks))

EncCall(op, value, buf) ==
    /\ enc' = buf
    /\ pushed' = Append(pushed, [op |-> op, value |-> value])
    /\ last' = [op |-> op, size |-> 0, arg |-> value, pre |-> 0, prebuf |-> enc,
                status |-> "Ok", val |-> <<>>]
    /\ UNCHANGED <<obj, data, index, overflow_checks>>

push_vec(cap) ==
    /\ obj = "Encoder" /\ Len(pushed) < cap
    /\ \E vec \in VecValues : EncCall("push_vec", vec, push_vec_buf(enc, vec))

push_h160(cap) ==
    /\ obj = "Encoder" /\ Len(pushed) < cap
    /\ \E value \in H160Values : EncCall("push_h160", value, push_h160_buf(enc, value))

push_h160_not_padded(cap) ==
    /\ obj = "Encoder" /\ Len(pushed) < cap
    /\ \E value \in H160Values :
          EncCall("push_h160_not_padded", value, push_h160_not_padded_buf(enc, value))

push_h256(cap) ==
    /\ obj = "Encoder" /\ Len(pushed) < cap
    /\ \E value \in H256Values : EncCall("push_h256", value, push_h256_buf(enc, value))

push_u256(cap) ==
    /\ obj = "Encoder" /\ Len(pushed) < cap
    /\ \E value \in U256Values : EncCall("push_u256", value, push_u256_buf(enc, value))

Next ==
    \/ next_vec
    \/ skip
    \/ next_h160
    \/ next_h160_not_padded
    \/ next_h256
    \/ next_u256
    \/ push_vec(MaxPushes)
    \/ push_h160(MaxPushes)
    \/ push_h160_not_padded(MaxPushes)
    \/ push_h256(MaxPushes)
    \/ push_u256(MaxPushes)

Spec == Init /\ [][Next]_vars

\* ------------------------------------------------- encode, then decode
\* the caller of a round trip: one value pushed on an empty encoder, whose
\* buffer then becomes the input of a decoder
InitRoundTrip ==
    /\ overflow_checks \in BOOLEAN
    /\ last = NoCall
    /\ pushed = <<>>
    /\ obj = "Encoder" /\ enc = <<>> /\ data = <<>> /\ index = 0

IntoDecoder ==
    /\ obj = "Encoder"
    /\ Len(pushed) = 1
    /\ DecoderFrom(enc)
    /\ last' = NoCall
    /\ UNCHANGED <<enc, overflow_checks, pushed>>

NextRoundTrip ==
    \/ push_vec(1)
    \/ push_h160(1)
    \/ push_h160_not_padded(1)
    \/ push_h256(1)
    \/ push_u256(1)
    \/ IntoDecoder
    \/ next_vec
    \/ skip
    \/ next_h160
    \/ next_h160_not_padded
    \/ next_h256
    \/ next_u256

SpecRoundTrip == InitRoundTrip /\ [][NextRoundTrip]_vars

TypeOK ==
    /\ obj \in {"Decoder", "Encoder"}
    /\ index \in 0..UsizeMax
    /\ Len(data) <= IsizeMax
    /\ overflow_checks \in BOOLEAN

\* ------------------------------------------------------------- properties
DecoderOps == {"next_vec", "skip", "next_h160", "next_h160_not_padded", "next_h256", "next_u256"}

FixedOps == {"next_h160", "next_h160_not_padded", "next_h256", "next_u256"}

EncoderOps == {"push_vec", "push_h160", "push_h160_not_padded", "push_h256", "push_u256"}

\* the base-256 digit of weight 256^i of a U256
Digit(value, i) == value[i + 1]

\* bytes a call consumes from the decoder when it succeeds
Consumed(call) ==
    CASE call.op \in {"next_vec", "skip"} -> call.size
      [] call.op = "next_h160_not_padded" -> 20
      [] OTHER -> 32

\* bytes a call appends to the encoder
Appended(call) ==
    CASE call.op = "push_vec" -> Len(call.arg)
      [] call.op = "push_h160_not_padded" -> 20
      [] OTHER -> 32

\* the round trip of one value: pushed by pushOp on an empty encoder, read
\* back by nextOp as the first call on the decoder made of that buffer
RoundTripOf(pushOp, nextOp) ==
    /\ obj = "Decoder"
    /\ Len(pushed) = 1
    /\ pushed[1].op = pushOp
    /\ last.op = nextOp
    /\ last.pre = 0

\* C1: a U256 pushed by push_u256 on an empty encoder and read back by
\* next_u256 from the resulting 32 bytes comes back as Ok(N), unchanged.
C1_RoundTripU256 ==
    RoundTripOf("push_u256", "next_u256") =>
        /\ Len(data) = 32
        /\ last.status = "Ok"
        /\ last.val = pushed[1].value

\* C2: push_u256(N) appends exactly 32 bytes, the first being the most
\* significant byte of N (weight 256^31) and the last the least significant;
\* push_u256(256) on an empty encoder gives byte 30 = 1 and zeros elsewhere.
C2_PushU256BigEndian ==
    last.op = "push_u256" =>
        /\ Len(enc) = Len(last.prebuf) + 32
        /\ \A i \in 0..31 : enc[Len(last.prebuf) + 1 + i] = last.arg[(31 - i) + 1]
        /\ (last.prebuf = <<>> /\ last.arg = U256FromNat(256)) =>
              enc = [i \in 1..32 |-> IF i = 31 THEN 1 ELSE 0]

\* C3: a fixed-width read (next_h160 32 bytes, next_h160_not_padded 20,
\* next_h256 32, next_u256 32) called with fewer bytes remaining returns
\* UnexpectedEndOfData and leaves the cursor where it was.
C3_BoundaryFailureKeepsCursor ==
    (last.op \in FixedOps /\ Len(data) - last.pre < Consumed(last)) =>
        /\ last.status = "Err"
        /\ index = last.pre

\* C4: an address pushed by push_h160 on an empty encoder and read back by
\* next_h160 comes back as Ok(A), and the cursor is then 32.
C4_RoundTripH160 ==
    RoundTripOf("push_h160", "next_h160") =>
        /\ last.status = "Ok"
        /\ last.val = pushed[1].value
        /\ index = 32

C4_Witness ==
    /\ RoundTripOf("push_h160", "next_h160")
    /\ pushed[1].value = [i \in 1..20 |-> 16 + i]
    /\ last.status = "Ok"

\* C5: push_h160(A) on a buffer B leaves B followed by 32 new bytes: twelve
\* zeros, then the twenty bytes of A in order.
C5_PushH160Padding ==
    last.op = "push_h160" =>
        LET n == Len(last.prebuf)
        IN  /\ Len(enc) = n + 32
            /\ \A i \in 1..n : enc[i] = last.prebuf[i]
            /\ \A i \in 1..12 : enc[n + i] = 0
            /\ \A i \in 1..20 : enc[n + 12 + i] = last.arg[i]

C5_Witness ==
    /\ last.op = "push_h160"
    /\ Len(last.prebuf) > 0
    /\ last.arg = [i \in 1..20 |-> 16 + i]

\* C6: over any sequence of decoder calls, successful or failed, the cursor
\* stays within 0..len, never decreases from one call to the next, and the
\* buffer is never changed.
C6_CursorInvariant ==
    [][obj = "Decoder" =>
          /\ 0 <= index /\ index <= Len(data)
          /\ index' <= Len(data')
          /\ index' >= index
          /\ data' = data]_vars

\* C7: a decoder call that succeeds from cursor c leaves the cursor at c + k
\* (k = size for next_vec and skip, 32 for next_h160, next_h256 and
\* next_u256, 20 for next_h160_not_padded) and returns a value built from
\* bytes [c, c+k) only ([c+12, c+32) for next_h160).
C7_ExactAdvance ==
    (last.op \in DecoderOps /\ last.status = "Ok") =>
        LET c == last.pre
            k == Consumed(last)
        IN  /\ index = c + k
            /\ c + k <= Len(data)
            /\ last.op = "next_vec" => last.val = SubSeq(data, c + 1, c + k)
            /\ last.op = "next_h160" => last.val = SubSeq(data, c + 13, c + 32)
            /\ last.op \in {"next_h160_not_padded", "next_h256"} =>
                  last.val = SubSeq(data, c + 1, c + k)
            /\ last.op = "next_u256" =>
                  \A i \in 1..32 : last.val[33 - i] = data[c + i]

\* C8: every push leaves the previous buffer as an unchanged prefix and
\* grows the length by exactly len(vec), 32, 20, 32 and 32 bytes for
\* push_vec, push_h160, push_h160_not_padded, push_h256 and push_u256.
C8_EncoderAppendOnly ==
    last.op \in EncoderOps =>
        /\ Len(enc) = Len(last.prebuf) + Appended(last)
        /\ Len(enc) >= Len(last.prebuf)
        /\ \A i \in 1..Len(last.prebuf) : enc[i] = last.prebuf[i]

C8_Witness ==
    /\ last.op = "push_vec"
    /\ last.arg = <<1, 2, 3>>
    /\ Len(pushed) = 2
    /\ Len(last.prebuf) > 2

\* C9: with at least 32 bytes remaining, next_u256 returns the integer
\* sum of buffer[cursor + i] * 256^(31 - i) over i in 0..31: the first byte
\* read is the digit of weight 256^31; 31 zeros followed by 1 decode to 1.
C9_NextU256BigEndian ==
    (last.op = "next_u256" /\ Len(data) - last.pre >= 32) =>
        /\ last.status = "Ok"
        /\ \A i \in 0..31 : Digit(last.val, 31 - i) = data[last.pre + i + 1]
        /\ (last.pre = 0 /\ data = ScenarioB) => last.val = U256FromNat(1)

C9_Witness ==
    /\ last.op = "next_u256"
    /\ last.pre = 0
    /\ data = ScenarioB
    /\ last.status = "Ok"

\* C10: for every cursor c, length L and size s of the whole usize range,
\* next_vec(s) and skip(s) succeed exactly when c + s <= L and otherwise
\* return UnexpectedEndOfData with the cursor unchanged; a sum above
\* usize::MAX neither wraps past the check nor panics.
C10_BoundsCheckEverySize ==
    last.op \in {"next_vec", "skip"} =>
        /\ last.status = "Ok" <=> last.pre + last.size <= Len(data)
        /\ last.pre + last.size > Len(data) =>
              /\ last.status = "Err"
              /\ index = last.pre

====
